---- MODULE Spec2Model ----
(***************************************************************************)
(* Model of todo.py, a command line task list manager.  One invocation of  *)
(* the script (load, parse arguments, dispatch, exit) is one action.       *)
(*                                                                         *)
(* Text is a sequence of one-character strings, so that the record codec   *)
(* (the f-string of save_tasks and the regular expression of load_tasks)   *)
(* is computed character by character.                                     *)
(***************************************************************************)
EXTENDS Integers, Sequences, FiniteSets, TLC

VARIABLES
    fs,               \* the script directory: file name -> [exists, mode, lines]
    tasks,            \* the module-level list `tasks` when the process ends
    completed_tasks,  \* the module-level list `completed_tasks` when the process ends
    out,              \* what the process printed
    view,             \* the rows `ls` handed to tabulate
    exitcode,         \* 0 normal, 1 uncaught exception, 2 argparse usage error
    trace,            \* the file system calls of the process, in order
    loaded,           \* `tasks` as load_tasks left it at the start of main
    moved,            \* the tasks handed to move_task_to_done, in order
    argv,             \* the command line of the process
    today,            \* the local date (month, day) the process read, if any
    running           \* processes that run at the same time, and their steps

vars == <<fs, tasks, completed_tasks, out, view, exitcode, trace, loaded,
          moved, argv, today, running>>

----------------------------------------------------------------------------
(* Bounds of the model *)

MaxLines == 2       \* lines in the file the script loads
MaxIds == 2         \* identifiers of one `done` invocation

----------------------------------------------------------------------------
(* Python values *)

None == <<"None">>                       \* Python None: no text is equal to it
Truthy(x) == x # None /\ x # <<>>        \* truth value of an optional str

NL == "\n"
Whitespace == {" ", NL}
Digits == {"0", "1", "2", "3", "4", "5", "6", "7", "8", "9"}

DigitVal(c) ==
    CASE c = "0" -> 0 [] c = "1" -> 1 [] c = "2" -> 2 [] c = "3" -> 3
      [] c = "4" -> 4 [] c = "5" -> 5 [] c = "6" -> 6 [] c = "7" -> 7
      [] c = "8" -> 8 [] c = "9" -> 9

DigitChar(n) ==
    CASE n = 0 -> "0" [] n = 1 -> "1" [] n = 2 -> "2" [] n = 3 -> "3"
      [] n = 4 -> "4" [] n = 5 -> "5" [] n = 6 -> "6" [] n = 7 -> "7"
      [] n = 8 -> "8" [] n = 9 -> "9"

RECURSIVE int(_)
int(s) == IF s = <<>> THEN 0
          ELSE 10 * int(SubSeq(s, 1, Len(s) - 1)) + DigitVal(s[Len(s)])

isdigit(s) == s # <<>> /\ \A i \in 1..Len(s) : s[i] \in Digits

SetMin(S) == CHOOSE x \in S : \A y \in S : x <= y
SetMax(S) == CHOOSE x \in S : \A y \in S : x >= y

RECURSIVE strip(_)
strip(s) ==
    IF s = <<>> THEN s
    ELSE IF s[1] \in Whitespace THEN strip(Tail(s))
    ELSE IF s[Len(s)] \in Whitespace THEN strip(SubSeq(s, 1, Len(s) - 1))
    ELSE s

\* The lines a text occupies in a file: the pieces between line breaks.
RECURSIVE SplitLines(_)
SplitLines(s) ==
    LET brk == {i \in 1..Len(s) : s[i] = NL}
    IN  IF brk = {} THEN <<s>>
        ELSE <<SubSeq(s, 1, SetMin(brk) - 1)>>
             \o SplitLines(SubSeq(s, SetMin(brk) + 1, Len(s)))

----------------------------------------------------------------------------
(* validate_date: re.match(r'^\d{1,2}/\d{1,2}$', date_str).  `$` also      *)
(* matches just before a line break that ends the string.                  *)

DateShape(s) ==
    \E a \in 1..2, b \in 1..2 :
        /\ Len(s) = a + 1 + b
        /\ \A i \in 1..a : s[i] \in Digits
        /\ s[a + 1] = "/"
        /\ \A i \in (a + 2)..(a + 1 + b) : s[i] \in Digits

\* a validation that takes any separator between the digits
validate_date_any_separator(date_str) ==
    \E a \in 1..2, b \in 1..2 :
        /\ Len(date_str) = a + 1 + b
        /\ \A i \in 1..a : date_str[i] \in Digits
        /\ \A i \in (a + 2)..(a + 1 + b) : date_str[i] \in Digits

validate_date(date_str) ==
    \/ DateShape(date_str)
    \/ /\ Len(date_str) > 0
       /\ date_str[Len(date_str)] = NL
       /\ DateShape(SubSeq(date_str, 1, Len(date_str) - 1))

----------------------------------------------------------------------------
(* The record codec *)

\* f'- {task["task"]} {{{date}}}[{task_class}]' of save_tasks
\* a line with the date and the class in each other's brackets
format_line_swapped(task) ==
    LET date == IF Truthy(task.date) THEN task.date ELSE <<>>
        task_class == IF Truthy(task.task_class) THEN task.task_class ELSE <<>>
    IN  <<"-", " ">> \o task.task \o <<" ", "{">> \o task_class \o <<"}", "[">>
        \o date \o <<"]">>

format_line(task) ==
    LET date == IF Truthy(task.date) THEN task.date ELSE <<>>
        task_class == IF Truthy(task.task_class) THEN task.task_class ELSE <<>>
    IN  <<"-", " ">> \o task.task \o <<" ", "{">> \o date \o <<"}", "[">>
        \o task_class \o <<"]">>

\* re.match(r'- (.*?) \{(.*?)\}\[(.*?)\]', s).  Every group is non-greedy,
\* so the match is the first one in the order shortest description, then
\* shortest date, then shortest class.  Each scan gives the first position
\* from its start where the rest of the pattern matches, or 0.

\* (.*?)\] : the first "]"
RECURSIVE FindClose(_, _)
FindClose(s, k) ==
    IF k > Len(s) THEN 0
    ELSE IF s[k] = "]" THEN k
    ELSE FindClose(s, k + 1)

\* (.*?)\}\[ : the first "}[" that a "]" follows
RECURSIVE FindMid(_, _)
FindMid(s, j) ==
    IF j >= Len(s) THEN 0
    ELSE IF s[j] = "}" /\ s[j + 1] = "[" /\ FindClose(s, j + 2) # 0 THEN j
    ELSE FindMid(s, j + 1)

\* (.*?) \{ : the first " {" that the rest of the pattern follows
RECURSIVE FindOpen(_, _)
FindOpen(s, i) ==
    IF i >= Len(s) THEN 0
    ELSE IF s[i] = " " /\ s[i + 1] = "{" /\ FindMid(s, i + 2) # 0 THEN i
    ELSE FindOpen(s, i + 1)

\* The three groups of the match, or None.
Groups(s, i, j, k) ==
    <<SubSeq(s, 3, i - 1), SubSeq(s, i + 2, j - 1), SubSeq(s, j + 2, k - 1)>>
GroupsFromMid(s, i, j) == Groups(s, i, j, FindClose(s, j + 2))
GroupsFromOpen(s, i) ==
    IF i = 0 THEN None ELSE GroupsFromMid(s, i, FindMid(s, i + 2))
re_match(s) ==
    IF Len(s) < 2 \/ s[1] # "-" \/ s[2] # " " THEN None
    ELSE GroupsFromOpen(s, FindOpen(s, 3))

----------------------------------------------------------------------------
(* The file system and the running process *)

MODE_OWNER_RW == 384    \* 0o600, the mode ensure_permissions sets
MODE_CREATED == 420     \* 0o644, the mode of a file created under umask 022

FileNames == {"file", "todo.txt", "done.txt"}
LOAD_TODO == "file"       \* default of load_tasks(todo_filename=...)
LOAD_DONE == "file"       \* default of load_tasks(done_filename=...)
SAVE_TODO == "todo.txt"   \* default of save_tasks(filename=...)
SAVE_DONE == "done.txt"   \* default of save_completed_tasks(filename=...)
MOVE_TODO == ""           \* todo_filename of move_task_to_done
MOVE_DONE == ""           \* done_filename of move_task_to_done

Absent == [exists |-> FALSE, mode |-> 0, lines |-> <<>>]
Exists(disk, filename) == filename \in DOMAIN disk /\ disk[filename].exists

NoException == "no exception"

\* A process as the interpreter starts it: the two module-level lists are
\* empty (lines 13-14) and nothing was printed.  An exception that no
\* handler catches ends the process: every later step leaves it as it is.
Process(disk) ==
    [fs |-> disk, tasks |-> <<>>, completed_tasks |-> <<>>, out |-> <<>>,
     view |-> <<>>, trace |-> <<>>, loaded |-> <<>>, moved |-> <<>>,
     exc |-> NoException]

Raised(p) == p.exc # NoException
Raise(p, e) == [p EXCEPT !.exc = e]
print(p, kind, text) ==
    IF Raised(p) THEN p ELSE [p EXCEPT !.out = Append(@, <<kind, text>>)]
Call(p, op, filename) == [p EXCEPT !.trace = Append(@, <<op, filename>>)]

\* os.chmod(filename, 0o600); FileNotFoundError is swallowed
ensure_permissions(p, filename) ==
    IF Raised(p) THEN p
    ELSE IF Exists(p.fs, filename)
    THEN [p EXCEPT !.fs[filename].mode = MODE_OWNER_RW,
                   !.trace = Append(@, <<"chmod", filename>>)]
    ELSE Call(p, "chmod", filename)

\* a loop that counts the lines from 0
TaskOfMatch_from_zero(m, n, numbered) ==
    IF m = None THEN <<>>
    ELSE IF numbered
    THEN <<[line_number |-> n - 1, task |-> m[1], date |-> m[2],
            task_class |-> m[3]]>>
    ELSE <<[task |-> m[1], date |-> m[2], task_class |-> m[3]]>>

\* The body of the loops of load_tasks: a line that matches becomes a
\* task, with its line number when the caller keeps it.
TaskOfMatch(m, n, numbered) ==
    IF m = None THEN <<>>
    ELSE IF numbered
    THEN <<[line_number |-> n, task |-> m[1], date |-> m[2],
            task_class |-> m[3]]>>
    ELSE <<[task |-> m[1], date |-> m[2], task_class |-> m[3]]>>

RECURSIVE ParseLines(_, _, _)
ParseLines(lines, n, numbered) ==
    IF n = 0 THEN <<>>
    ELSE ParseLines(lines, n - 1, numbered)
         \o TaskOfMatch(re_match(strip(lines[n])), n, numbered)

\* with open(todo_filename, "r") ... except FileNotFoundError: pass
ReadTodo(p, filename) ==
    IF Exists(p.fs, filename)
    THEN [p EXCEPT !.trace = Append(@, <<"read", filename>>),
                   !.tasks = ParseLines(p.fs[filename].lines,
                                        Len(p.fs[filename].lines), TRUE)]
    ELSE Call(p, "read", filename)

\* with open(done_filename, "r") ... except FileNotFoundError: pass
ReadDone(p, filename) ==
    IF Exists(p.fs, filename)
    THEN [p EXCEPT !.trace = Append(@, <<"read", filename>>),
                   !.completed_tasks =
                       ParseLines(p.fs[filename].lines,
                                  Len(p.fs[filename].lines), FALSE)]
    ELSE Call(p, "read", filename)

load_tasks(p, todo_filename, done_filename) ==
    ReadDone(
        ReadTodo(
            ensure_permissions(
                ensure_permissions(
                    [p EXCEPT !.tasks = <<>>, !.completed_tasks = <<>>],
                    todo_filename),
                done_filename),
            todo_filename),
        done_filename)

\* What the write loop of save_tasks puts in the file for a list of tasks
RECURSIVE WrittenLines(_)
WrittenLines(list) ==
    IF list = <<>> THEN <<>>
    ELSE SplitLines(format_line(Head(list))) \o WrittenLines(Tail(list))

\* with open(filename, "w") as file: write every task.  open() of a name
\* that is no path raises FileNotFoundError.
WriteFile(p, list, filename) ==
    IF Raised(p) THEN p
    ELSE IF filename \notin FileNames
    THEN Raise(Call(p, "write", filename), "FileNotFoundError")
    ELSE [p EXCEPT !.trace = Append(@, <<"write", filename>>),
                   !.fs[filename] =
                       [exists |-> TRUE,
                        mode |-> IF @.exists THEN @.mode ELSE MODE_CREATED,
                        lines |-> WrittenLines(list)]]

save_tasks(p, filename) ==
    ensure_permissions(
        WriteFile(ensure_permissions(p, filename), p.tasks, filename),
        filename)

save_completed_tasks(p, filename) ==
    ensure_permissions(
        WriteFile(ensure_permissions(p, filename), p.completed_tasks, filename),
        filename)

\* tasks = [t for t in tasks if t != task]
Without(list, task) == SelectSeq(list, LAMBDA t : t # task)

\* completed_tasks.append(task)
AppendCompleted(p, task) ==
    IF Raised(p) THEN p ELSE [p EXCEPT !.completed_tasks = Append(@, task)]

move_task_to_done(p, task) ==
    AppendCompleted(
        save_completed_tasks(
            save_tasks(
                [p EXCEPT !.tasks = Without(@, task), !.moved = Append(@, task)],
                MOVE_TODO),
            MOVE_DONE),
        task)

\* last_task = completed_tasks.pop(); tasks.append(last_task)
PopToTasks(p) ==
    [p EXCEPT !.completed_tasks = SubSeq(@, 1, Len(@) - 1),
              !.tasks = Append(@, p.completed_tasks[Len(p.completed_tasks)])]

\* an undo that saves both lists whether or not it popped a task
undo_last_done_saving(p) ==
    IF p.completed_tasks # <<>>
    THEN print(save_completed_tasks(save_tasks(PopToTasks(p), SAVE_TODO),
                                    SAVE_DONE),
               "Undoing task: ", p.completed_tasks[Len(p.completed_tasks)].task)
    ELSE print(save_completed_tasks(save_tasks(p, SAVE_TODO), SAVE_DONE),
               "No completed tasks to undo.", <<>>)

undo_last_done(p) ==
    IF p.completed_tasks # <<>>
    THEN print(save_completed_tasks(save_tasks(PopToTasks(p), SAVE_TODO),
                                    SAVE_DONE),
               "Undoing task: ", p.completed_tasks[Len(p.completed_tasks)].task)
    ELSE print(p, "No completed tasks to undo.", <<>>)

----------------------------------------------------------------------------
(* Dates: parse_date is datetime.strptime(date_str, "%m/%d"), which takes  *)
(* a month 1..12 and a day 1..31 of one or two digits and builds a date of *)
(* the year 1900, and raises ValueError for anything else.                 *)

DEFAULT_YEAR == 1900
DATETIME_MAX == <<9999, 12, 31>>

DaysIn(month) ==
    CASE month \in {1, 3, 5, 7, 8, 10, 12} -> 31
      [] month \in {4, 6, 9, 11} -> 30
      [] month = 2 -> 28

MonthText(t) == isdigit(t) /\ Len(t) \in 1..2 /\ int(t) \in 1..12
DayText(t) ==
    \/ isdigit(t) /\ Len(t) \in 1..2 /\ int(t) \in 1..31
    \/ Len(t) = 2 /\ t[1] = " " /\ t[2] \in Digits \ {"0"}

\* The datetime as (year, month, day), or None where strptime raises.
parse_date(date_str) ==
    LET slash == {i \in 1..Len(date_str) : date_str[i] = "/"}
    IN  IF slash = {} THEN None
        ELSE LET i == SetMin(slash)
                 m == SubSeq(date_str, 1, i - 1)
                 d == SubSeq(date_str, i + 1, Len(date_str))
             IN  IF MonthText(m) /\ DayText(d)
                    /\ int(strip(d)) <= DaysIn(int(m))
                 THEN <<DEFAULT_YEAR, int(m), int(strip(d))>>
                 ELSE None

\* key=lambda x: parse_date(x["date"]) if x["date"] else datetime.max
SortKey(x) == IF Truthy(x.date) THEN parse_date(x.date) ELSE DATETIME_MAX

KeyLeq(a, b) ==
    \/ a[1] < b[1]
    \/ a[1] = b[1] /\ a[2] < b[2]
    \/ a[1] = b[1] /\ a[2] = b[2] /\ a[3] <= b[3]

\* list.sort is stable: an element goes after the elements whose key is
\* not greater than its own.
InsertAfter(list, k, x) ==
    SubSeq(list, 1, k) \o <<x>> \o SubSeq(list, k + 1, Len(list))

RECURSIVE LastNotGreater(_, _, _)
LastNotGreater(list, k, key) ==
    IF k = 0 \/ KeyLeq(SortKey(list[k]), key) THEN k
    ELSE LastNotGreater(list, k - 1, key)

InsertByDate(list, x) ==
    InsertAfter(list, LastNotGreater(list, Len(list), SortKey(x)), x)

RECURSIVE SortedByDate(_)
SortedByDate(list) ==
    IF list = <<>> THEN <<>>
    ELSE InsertByDate(SortedByDate(SubSeq(list, 1, Len(list) - 1)),
                      list[Len(list)])

\* tasks.sort(key=...): a key that raises leaves the list as it was
sort_tasks(p) ==
    IF Raised(p) THEN p
    ELSE IF \E i \in 1..Len(p.tasks) : SortKey(p.tasks[i]) = None
    THEN Raise(p, "ValueError")
    ELSE [p EXCEPT !.tasks = SortedByDate(@)]

\* datetime.now().strftime("%-m/%d"): month without padding, day padded
TwoDigits(n) == <<DigitChar(n \div 10), DigitChar(n % 10)>>
MonthDigits(n) == IF n < 10 THEN <<DigitChar(n)>> ELSE TwoDigits(n)
strftime(now) == MonthDigits(now[1]) \o <<"/">> \o TwoDigits(now[2])

----------------------------------------------------------------------------
(* main *)

Args(command, task, date, task_class, identifiers, now) ==
    [command |-> command, task |-> task, date |-> date,
     task_class |-> task_class, identifiers |-> identifiers, now |-> now]

\* parser.parse_args(): type=validate_date rejects the --date value
parse_args(p, args) ==
    IF args.date # None /\ ~validate_date(args.date)
    THEN Raise(p, "SystemExit")
    ELSE p

PrintIf(p, kind, text) == IF Truthy(text) THEN print(p, kind, text) ELSE p

\* an add that puts the new task first
main_add_first(p, args) ==
    PrintIf(
        PrintIf(
            print(save_tasks([p EXCEPT !.tasks =
                                 <<[task |-> args.task,
                                    date |-> args.date,
                                    task_class |-> args.task_class]>> \o @],
                             SAVE_TODO),
                  "Adding task: ", args.task),
            "Due date: ", args.date),
        "Class: ", args.task_class)

main_add(p, args) ==
    PrintIf(
        PrintIf(
            print(save_tasks([p EXCEPT !.tasks =
                                 Append(@, [task |-> args.task,
                                            date |-> args.date,
                                            task_class |-> args.task_class])],
                             SAVE_TODO),
                  "Adding task: ", args.task),
            "Due date: ", args.date),
        "Class: ", args.task_class)

\* next((t for t in tasks if t["line_number"] == task_number), None)
ByNumber(list, task_number) ==
    {i \in 1..Len(list) : list[i].line_number = task_number}

\* the tasks the loop over `tasks` accepts for a description
ByDescription(list, identifier, args) ==
    {i \in 1..Len(list) : /\ list[i].task = identifier
                          /\ list[i].date = args.date
                          /\ list[i].task_class = args.task_class}

\* tasks.remove(task): the first element equal to task goes
Remove(list, task) ==
    LET first == SetMin({i \in 1..Len(list) : list[i] = task})
    IN  SubSeq(list, 1, first - 1) \o SubSeq(list, first + 1, Len(list))

done_number(p, task_number, found) ==
    IF found # {}
    THEN print(move_task_to_done(p, p.tasks[SetMin(found)]),
               "Completing task: ", p.tasks[SetMin(found)].task)
    ELSE print(p, "Task number is out of range: ", <<task_number>>)

done_description(p, identifier, found) ==
    IF found # {}
    THEN print(move_task_to_done(
                   [p EXCEPT !.tasks = Remove(@, p.tasks[SetMin(found)])],
                   p.tasks[SetMin(found)]),
               "Completing task: ", identifier)
    ELSE print(p, "Task not found: ", identifier)

\* one pass of the loop over args.identifiers
done_identifier(p, identifier, args) ==
    IF isdigit(identifier)
    THEN done_number(p, int(identifier), ByNumber(p.tasks, int(identifier)))
    ELSE done_description(p, identifier,
                          ByDescription(p.tasks, identifier, args))

RECURSIVE main_done(_, _, _)
main_done(p, identifiers, args) ==
    IF identifiers = <<>> \/ Raised(p) THEN p
    ELSE main_done(done_identifier(p, Head(identifiers), args),
                   Tail(identifiers), args)

FORE_RED == <<"ESC[31m">>
FORE_BLUE == <<"ESC[34m">>
STYLE_RESET_ALL == <<"ESC[0m">>

\* one row of the table: [line_number, task_str, date_str, class_str]
TableRow(task) ==
    <<task.line_number, task.task,
      IF Truthy(task.date) THEN FORE_RED \o task.date \o STYLE_RESET_ALL ELSE <<>>,
      IF Truthy(task.task_class)
      THEN FORE_BLUE \o task.task_class \o STYLE_RESET_ALL ELSE <<>> >>

filtered_tasks(list, args, now) ==
    IF args.now
    THEN SelectSeq(list, LAMBDA task : task.date = strftime(now))
    ELSE IF Truthy(args.date)
    THEN SelectSeq(list, LAMBDA task : task.date = args.date)
    ELSE IF Truthy(args.task_class)
    THEN SelectSeq(list, LAMBDA task : task.task_class = args.task_class)
    ELSE list

ShowTable(p, shown) ==
    IF shown = <<>> THEN print(p, "No tasks to show.", <<>>)
    ELSE [p EXCEPT !.view = [i \in 1..Len(shown) |-> TableRow(shown[i])]]

main_ls(p, args, now) == ShowTable(p, filtered_tasks(p.tasks, args, now))

\* an update that adds the sorted tasks to what the pending file holds
main_update_appending(p) ==
    print(save_tasks(
              sort_tasks(
                  [load_tasks(p, LOAD_TODO, LOAD_DONE) EXCEPT
                      !.tasks = (IF Exists(p.fs, SAVE_TODO)
                                 THEN ParseLines(p.fs[SAVE_TODO].lines,
                                                 Len(p.fs[SAVE_TODO].lines), TRUE)
                                 ELSE <<>>) \o @]),
              SAVE_TODO),
          "Task lists updated and sorted from files.", <<>>)

main_update(p) ==
    print(save_tasks(sort_tasks(load_tasks(p, LOAD_TODO, LOAD_DONE)), SAVE_TODO),
          "Task lists updated and sorted from files.", <<>>)

Dispatch(p, args, now) ==
    IF Raised(p) THEN p
    ELSE CASE args.command = "add" -> main_add(p, args)
           [] args.command = "done" -> main_done(p, args.identifiers, args)
           [] args.command = "undo" -> undo_last_done(p)
           [] args.command = "ls" -> main_ls(p, args, now)
           [] args.command = "update" -> main_update(p)

\* `tasks` as the load of line 98 leaves it
Loaded(p) == [p EXCEPT !.loaded = p.tasks]

\* The process from its start on the directory `disk` to its end.
main(disk, args, now) ==
    Dispatch(
        parse_args(Loaded(load_tasks(Process(disk), LOAD_TODO, LOAD_DONE)),
                   args),
        args, now)

\* the exit status of the interpreter
ExitCode(p) ==
    IF ~Raised(p) THEN 0 ELSE IF p.exc = "SystemExit" THEN 2 ELSE 1

----------------------------------------------------------------------------
(* Inputs of the model *)

A == <<"a">>
B == <<"b">>
X == <<"x">>
D_1_5 == <<"1", "/", "5">>
D_3_12 == <<"3", "/", "1", "2">>
D_2_30 == <<"2", "/", "3", "0">>      \* of the accepted shape, no calendar date
D_BAD == <<"1", "-", "5">>            \* not of the accepted shape
D_1_5_NL == <<"1", "/", "5", NL>>     \* "1/5" and a line break

Task(task, date, task_class) ==
    [task |-> task, date |-> date, task_class |-> task_class]

\* The loaded file holds records as save_tasks writes them.
FileTasks == {Task(A, <<>>, <<>>), Task(A, D_1_5, X), Task(B, D_3_12, <<>>),
              Task(B, D_2_30, X)}
FileLines == {format_line(t) : t \in FileTasks}
FileContents == UNION {[1..n -> FileLines] : n \in 0..MaxLines}

\* (--date, --class) of a command line; None is an option left out
AddOptions == {<<None, None>>, <<D_1_5, X>>, <<D_BAD, None>>}
DoneOptions == {<<None, None>>, <<D_1_5, X>>, <<D_BAD, None>>}
LsOptions == {<<None, None>>, <<D_1_5, X>>, <<None, X>>, <<None, <<>> >>,
              <<D_BAD, None>>, <<D_1_5_NL, None>>}
AddTexts == {A}
Identifiers == {<<"1">>, <<"2">>, A}
IdentifierLists == UNION {[1..n -> Identifiers] : n \in 1..MaxIds}
Todays == {<<1, 5>>, <<3, 12>>}
NotRead == <<0, 0>>       \* only `ls --now` calls datetime.now()

NoArgs == Args("", None, None, None, <<>>, FALSE)

\* one process at a time: nothing runs beside it
NotRunning == [procs |-> <<>>, events |-> <<>>]

----------------------------------------------------------------------------
(* The state machine: one action per command line *)

Init ==
    /\ \/ fs = [f \in FileNames |-> Absent]
       \/ \E lines \in FileContents :
              fs = [f \in FileNames |->
                       IF f = "file"
                       THEN [exists |-> TRUE, mode |-> MODE_CREATED, lines |-> lines]
                       ELSE Absent]
    /\ tasks = <<>>
    /\ completed_tasks = <<>>
    /\ out = <<>>
    /\ view = <<>>
    /\ exitcode = 0
    /\ trace = <<>>
    /\ loaded = <<>>
    /\ moved = <<>>
    /\ argv = NoArgs
    /\ today = NotRead
    /\ running = NotRunning

\* The process runs to its end: what it leaves behind.
Exit(process) ==
    \E p \in {process} :
        /\ fs' = p.fs
        /\ tasks' = p.tasks
        /\ completed_tasks' = p.completed_tasks
        /\ out' = p.out
        /\ view' = p.view
        /\ exitcode' = ExitCode(p)
        /\ trace' = p.trace
        /\ loaded' = p.loaded
        /\ moved' = p.moved
        /\ running' = running

Add ==
    \E task \in AddTexts, opt \in AddOptions :
        LET args == Args("add", task, opt[1], opt[2], <<>>, FALSE)
        IN  /\ argv' = args
            /\ today' = NotRead
            /\ Exit(main(fs, args, NotRead))

Done ==
    \E identifiers \in IdentifierLists, opt \in DoneOptions :
        LET args == Args("done", None, opt[1], opt[2], identifiers, FALSE)
        IN  /\ argv' = args
            /\ today' = NotRead
            /\ Exit(main(fs, args, NotRead))

Undo ==
    LET args == Args("undo", None, None, None, <<>>, FALSE)
    IN  /\ argv' = args
        /\ today' = NotRead
        /\ Exit(main(fs, args, NotRead))

Ls ==
    \E now \in BOOLEAN, opt \in LsOptions :
        \E d \in IF now THEN Todays ELSE {NotRead} :
            LET args == Args("ls", None, opt[1], opt[2], <<>>, now)
            IN  /\ argv' = args
                /\ today' = d
                /\ Exit(main(fs, args, d))

Update ==
    LET args == Args("update", None, None, None, <<>>, FALSE)
    IN  /\ argv' = args
        /\ today' = NotRead
        /\ Exit(main(fs, args, NotRead))

Next == Add \/ Done \/ Undo \/ Ls \/ Update

Spec == Init /\ [][Next]_vars

----------------------------------------------------------------------------
(* Vocabulary of the properties *)

\* The pending file and the completed file are the two files the store
\* saves: save_tasks() and save_completed_tasks() with their defaults.
FileText(disk, filename) ==
    IF Exists(disk, filename) THEN disk[filename].lines ELSE <<>>
PendingFile(disk) == FileText(disk, SAVE_TODO)
CompletedFile(disk) == FileText(disk, SAVE_DONE)

Lines(text) == {text[i] : i \in 1..Len(text)}
Count(text, line) == Cardinality({i \in 1..Len(text) : text[i] = line})
SameMultiset(a, b) ==
    \A line \in Lines(a) \cup Lines(b) : Count(a, line) = Count(b, line)
FormatAll(list) == [i \in 1..Len(list) |-> format_line(list[i])]

UndoArgs == Args("undo", None, None, None, <<>>, FALSE)

\* An option that is left out stands for a task without that field.
OptionMatches(field, option) ==
    IF option = None THEN ~Truthy(field) ELSE field = option

\* Month and day of a date text, as numbers.
MonthOf(date) ==
    int(SubSeq(date, 1, SetMin({i \in 1..Len(date) : date[i] = "/"}) - 1))
DayOf(date) ==
    int(SubSeq(date, SetMin({i \in 1..Len(date) : date[i] = "/"}) + 1, Len(date)))

----------------------------------------------------------------------------
(* C1.  A `done` invocation that completes a pending task T leaves, when   *)
(* the process ends, T out of the pending file and as the last line of the *)
(* completed file: the completed file is its previous content followed by  *)
(* the completed tasks.                                                    *)
C1_DonePersistsBoth ==
    [][(argv'.command = "done" /\ moved' # <<>>) =>
          /\ \A i \in 1..Len(moved') :
                 format_line(moved'[i]) \notin Lines(PendingFile(fs'))
          /\ CompletedFile(fs') = CompletedFile(fs) \o FormatAll(moved')]_vars

(* C2.  No command loses a task from both files and no command leaves a    *)
(* task in both: every task of the store before a command, and the task an *)
(* `add` adds, is afterwards in exactly one of the pending file and the    *)
(* completed file.                                                         *)
C2_ExactlyOneFile ==
    [][\A line \in Lines(PendingFile(fs)) \cup Lines(CompletedFile(fs)) \cup
                   (IF argv'.command = "add" /\ exitcode' = 0
                    THEN {format_line(Task(argv'.task, argv'.date,
                                           argv'.task_class))}
                    ELSE {}) :
          (line \in Lines(PendingFile(fs'))) # (line \in Lines(CompletedFile(fs')))
      ]_vars

(* C3.  From any store S, a `done` that completes a pending task followed  *)
(* by an `undo`, nothing else between, leaves the pending file with the    *)
(* multiset of tasks it has in S and the completed file as it is in S.     *)
C3_DoneUndoInverse ==
    [][(argv'.command = "done" /\ moved' # <<>>) =>
          \A undone \in {main(fs', UndoArgs, NotRead)} :
              /\ SameMultiset(PendingFile(undone.fs), PendingFile(fs))
              /\ CompletedFile(undone.fs) = CompletedFile(fs)]_vars

(* C4.  Undo is last-in-first-out: after a `done` completes A and the next *)
(* `done` completes B, the first `undo` puts B at the end of the pending   *)
(* file, the second puts A at the end, and neither is left in the          *)
(* completed file.                                                         *)
C4_UndoLifo ==
    [][(/\ argv.command = "done" /\ Len(moved) = 1
        /\ argv'.command = "done" /\ Len(moved') = 1
        /\ moved'[1] # moved[1]) =>
          \A undo1 \in {main(fs', UndoArgs, NotRead)} :
          \A undo2 \in {main(undo1.fs, UndoArgs, NotRead)} :
              /\ PendingFile(undo1.fs) =
                     Append(PendingFile(fs'), format_line(moved'[1]))
              /\ PendingFile(undo2.fs) =
                     Append(PendingFile(undo1.fs), format_line(moved[1]))
              /\ format_line(moved[1]) \notin Lines(CompletedFile(undo2.fs))
              /\ format_line(moved'[1]) \notin Lines(CompletedFile(undo2.fs))]_vars

(* C5.  `done` with a description completes the first pending task with    *)
(* that description whose date and class equal the options, an option left *)
(* out matching the tasks without that field.                              *)
C5_DoneByDescription ==
    (argv.command = "done" /\ exitcode # 2 /\ ~isdigit(argv.identifiers[1])) =>
        \A wanted \in {{i \in 1..Len(loaded) :
                          /\ loaded[i].task = argv.identifiers[1]
                          /\ OptionMatches(loaded[i].date, argv.date)
                          /\ OptionMatches(loaded[i].task_class, argv.task_class)}} :
            wanted # {} => (moved # <<>> /\ moved[1] = loaded[SetMin(wanted)])

(* C6 as stated.  A command given a --date value that is not 1-2 digits,   *)
(* "/", 1-2 digits ends with the usage error (exit status 2), and no file  *)
(* was accessed before the rejection: no chmod, no read, no write.         *)
C6_RejectedBeforeFileAccess ==
    (argv.date # None /\ ~DateShape(argv.date)) =>
        (exitcode = 2 /\ trace = <<>>)

\* the shape, with the line break Python's `$` lets follow it
ShapeThenLineBreak(date) ==
    /\ Len(date) > 0
    /\ date[Len(date)] = NL
    /\ DateShape(SubSeq(date, 1, Len(date) - 1))

(* C6 as amended.  A command given a --date value that is not 1-2 digits,  *)
(* "/", 1-2 digits (nor that followed by one line break) ends with the     *)
(* usage error, exit status 2, having printed and written nothing: all it  *)
(* did to the files is the load that main runs before it parses the        *)
(* arguments, the chmod and the read of the loaded file.  A value of the   *)
(* shape followed by one line break is not rejected.                       *)
C6_RejectedWithoutWrite ==
    /\ (argv.date # None /\ ~DateShape(argv.date)
           /\ ~ShapeThenLineBreak(argv.date)) =>
           /\ exitcode = 2
           /\ out = <<>>
           /\ view = <<>>
           /\ trace = << <<"chmod", LOAD_TODO>>, <<"chmod", LOAD_DONE>>,
                         <<"read", LOAD_TODO>>, <<"read", LOAD_DONE>> >>
    /\ (argv.date # None /\ ShapeThenLineBreak(argv.date)) => exitcode # 2

\* A rejected command line after the load has touched an existing file.
C6_Witness ==
    /\ argv.date = D_BAD
    /\ exitcode = 2
    /\ Len(trace) = 4
    /\ Exists(fs, LOAD_TODO)
    /\ fs[LOAD_TODO].mode = MODE_OWNER_RW

\* The order `update` is to give `list`: by month, then day, as numbers,
\* tasks without a date last, equal dates in their order in `list`.
Before(list, i, j) ==
    IF ~Truthy(list[i].date) THEN ~Truthy(list[j].date) /\ i < j
    ELSE IF ~Truthy(list[j].date) THEN TRUE
    ELSE \/ MonthOf(list[i].date) < MonthOf(list[j].date)
         \/ /\ MonthOf(list[i].date) = MonthOf(list[j].date)
            /\ DayOf(list[i].date) < DayOf(list[j].date)
         \/ /\ MonthOf(list[i].date) = MonthOf(list[j].date)
            /\ DayOf(list[i].date) = DayOf(list[j].date)
            /\ i < j

IsStableDateSort(result, list) ==
    \E order \in Permutations(1..Len(list)) :
        /\ result = [i \in 1..Len(list) |-> list[order[i]]]
        /\ \A i \in 1..Len(list) : \A j \in (i + 1)..Len(list) :
               Before(list, order[i], order[j])

(* C7.  `update` rewrites the pending file as the stable sort of the       *)
(* loaded pending tasks by due date (month, then day, as numbers; tasks    *)
(* without a date last) and leaves the completed file as it was.           *)
C7_UpdateSortsPending ==
    [][argv'.command = "update" =>
          /\ \E result \in {SortedByDate(loaded')} :
                 /\ IsStableDateSort(result, loaded')
                 /\ PendingFile(fs') = FormatAll(result)
          /\ CompletedFile(fs') = CompletedFile(fs)]_vars

\* a task is due today when its date names today's month and day
DueOn(task, now) ==
    /\ DateShape(task.date)
    /\ MonthOf(task.date) = now[1]
    /\ DayOf(task.date) = now[2]

(* C8.  `ls` applies one filter, by the priority now > date > class: with  *)
(* --now the tasks due today; else with --date the tasks of that date;     *)
(* else with --class the tasks of that class; else all pending tasks, in   *)
(* file order.                                                             *)
C8_LsFilterPriority ==
    (argv.command = "ls" /\ exitcode = 0) =>
        [i \in 1..Len(view) |-> view[i][1]] =
            [i \in 1..Len(
                SelectSeq(loaded, LAMBDA task :
                    IF argv.now THEN DueOn(task, today)
                    ELSE IF argv.date # None THEN task.date = argv.date
                    ELSE IF argv.task_class # None
                    THEN task.task_class = argv.task_class
                    ELSE TRUE)) |->
             SelectSeq(loaded, LAMBDA task :
                    IF argv.now THEN DueOn(task, today)
                    ELSE IF argv.date # None THEN task.date = argv.date
                    ELSE IF argv.task_class # None
                    THEN task.task_class = argv.task_class
                    ELSE TRUE)[i].line_number]

(* C10.  A mutation is visible to the next invocation: after `add D -d X   *)
(* -c C` on a store with n pending tasks, a following `ls` without options *)
(* shows n + 1 rows, the last one with position n + 1, description D, date *)
(* X and class C.                                                          *)
C10_AddThenLs ==
    [][(/\ argv.command = "add" /\ exitcode = 0
        /\ argv'.command = "ls" /\ ~argv'.now
        /\ argv'.date = None /\ argv'.task_class = None) =>
          /\ Len(view') = Len(loaded) + 1
          /\ view'[Len(view')] =
                 TableRow([line_number |-> Len(loaded) + 1, task |-> argv.task,
                           date |-> argv.date, task_class |-> argv.task_class])
      ]_vars

----------------------------------------------------------------------------
(* The record codec on its own: save_tasks writes the one task the process *)
(* holds, load_tasks reads the file save_tasks wrote.                      *)

MaxText == 2

DescChars == {"a", " ", "{", NL}
ClassChars == {"x", "]", "}", "[", NL}

RECURSIVE Texts(_, _)
Texts(chars, n) ==
    IF n = 0 THEN {<<>>}
    ELSE Texts(chars, n - 1)
         \cup {Append(t, c) : t \in Texts(chars, n - 1), c \in chars}

CodecDates == {None, D_1_5, D_3_12}

CodecInit ==
    /\ fs = [f \in FileNames |-> Absent]
    /\ \E task \in Texts(DescChars, MaxText), date \in CodecDates,
          task_class \in {None} \cup Texts(ClassChars, MaxText) :
           tasks = <<Task(task, date, task_class)>>
    /\ completed_tasks = <<>>
    /\ out = <<>>
    /\ view = <<>>
    /\ exitcode = 0
    /\ trace = <<>>
    /\ loaded = <<>>
    /\ moved = <<>>
    /\ argv = NoArgs
    /\ today = NotRead
    /\ running = NotRunning

\* what the process holds, on the directory as it is
Holding == [Process(fs) EXCEPT !.tasks = tasks, !.loaded = loaded]

\* save_tasks(): the task goes to the pending file; `loaded` keeps it as
\* it was given.
CodecSave ==
    /\ ~Exists(fs, SAVE_TODO)
    /\ argv' = argv
    /\ today' = today
    /\ Exit(save_tasks([Holding EXCEPT !.loaded = tasks], SAVE_TODO))

\* load_tasks on the files that were saved
CodecLoad ==
    /\ Exists(fs, SAVE_TODO)
    /\ <<"read", SAVE_TODO>> \notin {trace[i] : i \in 1..Len(trace)}
    /\ argv' = argv
    /\ today' = today
    /\ Exit(load_tasks([Holding EXCEPT !.trace = trace], SAVE_TODO, SAVE_DONE))

CodecNext == CodecSave \/ CodecLoad

SpecCodec == CodecInit /\ [][CodecNext]_vars

\* the task was saved, and the file has been read back
RoundTripDone ==
    /\ Len(loaded) = 1
    /\ <<"read", SAVE_TODO>> \in {trace[i] : i \in 1..Len(trace)}

\* absent and empty are one value of an optional field
SameOptional(x, y) == IF Truthy(x) THEN x = y ELSE ~Truthy(y)

ReadBackSame ==
    /\ Len(tasks) = 1
    /\ tasks[1].task = loaded[1].task
    /\ SameOptional(loaded[1].date, tasks[1].date)
    /\ SameOptional(loaded[1].task_class, tasks[1].task_class)

Chars(text) == IF text = None THEN {} ELSE {text[i] : i \in 1..Len(text)}

(* C9 as stated.  For every task whose description contains none of the   *)
(* characters { } [ ], with any date (absent or M/D-shaped) and any class, *)
(* parsing the line written by save yields a task with the same            *)
(* description, date and class.                                            *)
C9_RoundTrip ==
    (RoundTripDone /\ Chars(loaded[1].task) \cap {"{", "}", "[", "]"} = {}) =>
        ReadBackSame

(* C9 as amended.  For every task whose description contains none of the   *)
(* characters { } [ ] and no line break and whose class contains no "]"    *)
(* and no line break, with any date (absent or M/D-shaped), parsing the    *)
(* line written by save yields one task with the same description, date    *)
(* and class, an absent date or class being read back as the empty text.   *)
C9_RoundTripOfOneLine ==
    (/\ RoundTripDone
     /\ Chars(loaded[1].task) \cap {"{", "}", "[", "]", NL} = {}
     /\ Chars(loaded[1].task_class) \cap {"]", NL} = {}) =>
        /\ ReadBackSame
        /\ Truthy(loaded[1].date) \/ tasks[1].date = <<>>
        /\ Truthy(loaded[1].task_class) \/ tasks[1].task_class = <<>>

\* A task with a date and with a class that holds "[" and "}" was written
\* and read back.
C9_Witness ==
    /\ RoundTripDone
    /\ loaded[1].task = <<"a", " ">>
    /\ loaded[1].date = D_1_5
    /\ loaded[1].task_class = <<"}", "[">>
    /\ tasks = <<[line_number |-> 1, task |-> <<"a", " ">>, date |-> D_1_5,
                  task_class |-> <<"}", "[">>]>>

----------------------------------------------------------------------------
(* C11.  Every command whose arguments parse ends with exit status 0 and   *)
(* no uncaught error, whatever well-formed task lines the files hold.      *)
C11_ExitZero ==
    (argv.command # "" /\ exitcode # 2) => exitcode = 0

\* the loaded task a numeral of `done` names, if it names one
Resolves(list, identifier) ==
    isdigit(identifier) /\ ByNumber(list, int(identifier)) # {}

OutOfRange(list, identifier) ==
    isdigit(identifier) /\ ByNumber(list, int(identifier)) = {}

FirstUse(identifiers, k) ==
    \A j \in 1..(k - 1) : identifiers[j] # identifiers[k]

(* C12.  `done` handles its identifiers in order and independently: an     *)
(* identifier that is out of range only prints a message, and a later      *)
(* numeral that names a pending task still has its task completed: the     *)
(* task's line is in the completed file when the invocation ends, with     *)
(* exit status 0.                                                          *)
C12_IdentifiersIndependent ==
    [][(argv'.command = "done" /\ exitcode' # 2) =>
          \A k \in 1..Len(argv'.identifiers) :
              (/\ Resolves(loaded', argv'.identifiers[k])
               /\ FirstUse(argv'.identifiers, k)
               /\ \E j \in 1..(k - 1) : OutOfRange(loaded', argv'.identifiers[j])) =>
                  \E t \in {loaded'[SetMin(ByNumber(loaded',
                                            int(argv'.identifiers[k])))]} :
                      /\ format_line(t) \in Lines(CompletedFile(fs'))
                      /\ exitcode' = 0]_vars

C18_LoadTimePositions ==
    [][(/\ argv'.command = "done" /\ exitcode' # 2
        /\ Len(argv'.identifiers) = 2
        /\ Resolves(loaded', argv'.identifiers[1])
        /\ Resolves(loaded', argv'.identifiers[2])) =>
          \E i \in {int(argv'.identifiers[1])}, j \in {int(argv'.identifiers[2])} :
              IF i # j
              THEN moved' = <<loaded'[SetMin(ByNumber(loaded', i))],
                              loaded'[SetMin(ByNumber(loaded', j))]>>
              ELSE /\ moved' = <<loaded'[SetMin(ByNumber(loaded', i))]>>
                   /\ out' # <<>>
                   /\ out'[Len(out')] = <<"Task number is out of range: ", <<i>> >>
      ]_vars

(* C19.  `ls --now` lists a pending task exactly when its stored due date  *)
(* names today's month and day: a task stored with the date 1/5 is in the  *)
(* view on January 5, and no task of another month or day is.              *)
C19_NowListsDueToday ==
    (argv.command = "ls" /\ argv.now /\ exitcode = 0) =>
        \A i \in 1..Len(loaded) :
            DueOn(loaded[i], today) <=>
                (\E r \in 1..Len(view) : view[r] = TableRow(loaded[i]))

\* the system calls of a process that wrote a file
Writes(calls) == {i \in 1..Len(calls) : calls[i][1] = "write"}

(* C13.  `add` always succeeds and appends exactly one task at the end of  *)
(* the pending sequence: after it the pending file is the previously       *)
(* loaded pending tasks in their order followed by the new task, and the   *)
(* completed file is neither written nor changed.                          *)
C13_AddAppendsOne ==
    [][(argv'.command = "add" /\ exitcode' # 2) =>
          \E new \in {Task(argv'.task, argv'.date, argv'.task_class)} :
              /\ exitcode' = 0
              /\ tasks' = Append(loaded', new)
              /\ PendingFile(fs') = Append(FormatAll(loaded'), format_line(new))
              /\ fs'[SAVE_DONE] = fs[SAVE_DONE]
              /\ \A i \in Writes(trace') : trace'[i][2] = SAVE_TODO]_vars

\* `add a -d 1/5 -c x` ran on two loaded tasks and wrote three lines.
C13_Witness ==
    /\ argv.command = "add"
    /\ argv.date = D_1_5
    /\ exitcode = 0
    /\ Len(loaded) = 2
    /\ Len(PendingFile(fs)) = 3
    /\ PendingFile(fs)[3] = format_line(Task(A, D_1_5, X))

\* the completed tasks an invocation on `disk` loads
LoadsCompleted(disk) ==
    IF Exists(disk, LOAD_DONE)
    THEN {i \in 1..Len(disk[LOAD_DONE].lines) :
              re_match(strip(disk[LOAD_DONE].lines[i])) # None}
    ELSE {}

(* C14.  `undo` of an invocation that loads an empty completed sequence is *)
(* a no-op: it prints the notice and nothing else, writes no file, and     *)
(* every file holds after it what it held before.                          *)
C14_UndoNothing ==
    [][(argv'.command = "undo" /\ LoadsCompleted(fs) = {}) =>
          /\ exitcode' = 0
          /\ out' = << <<"No completed tasks to undo.", <<>> >> >>
          /\ completed_tasks' = <<>>
          /\ tasks' = loaded'
          /\ Writes(trace') = {}
          /\ \A f \in FileNames :
                 /\ Exists(fs', f) = Exists(fs, f)
                 /\ FileText(fs', f) = FileText(fs, f)]_vars

\* `undo` printed its notice next to a pending file that holds a task.
C14_Witness ==
    /\ argv.command = "undo"
    /\ out = << <<"No completed tasks to undo.", <<>> >> >>
    /\ PendingFile(fs) # <<>>
    /\ ~Exists(fs, SAVE_DONE)

UpdateArgs == Args("update", None, None, None, <<>>, FALSE)

(* C20.  `update` is idempotent on the persisted store: after an `update`  *)
(* that succeeded, an `update` run immediately afterwards succeeds and     *)
(* leaves the pending file and the completed file as the first left them.  *)
C20_UpdateIdempotent ==
    (argv.command = "update" /\ exitcode = 0) =>
        \A again \in {main(fs, UpdateArgs, NotRead)} :
            /\ ExitCode(again) = 0
            /\ PendingFile(again.fs) = PendingFile(fs)
            /\ CompletedFile(again.fs) = CompletedFile(fs)
            /\ again.fs[SAVE_TODO] = fs[SAVE_TODO]

\* An `update` that changed the order of two loaded tasks has run.
C20_Witness ==
    /\ argv.command = "update"
    /\ exitcode = 0
    /\ Len(loaded) = 2
    /\ PendingFile(fs) = <<format_line(Task(A, D_1_5, X)),
                           format_line(Task(B, D_3_12, <<>>))>>
    /\ fs[LOAD_TODO].lines = <<format_line(Task(B, D_3_12, <<>>)),
                               format_line(Task(A, D_1_5, X))>>

----------------------------------------------------------------------------
(* The load on its own: the file holds any lines, records or not, and the  *)
(* process runs load_tasks() as main does first.                           *)

MaxLoadLines == 3

RECORD_A == format_line(Task(A, <<>>, <<>>))
RECORD_B == format_line(Task(B, D_3_12, X))

AnyLines ==
    {RECORD_A, RECORD_B,
     <<" ">> \o RECORD_A \o <<" ">>,      \* a record between blanks
     RECORD_A \o <<"x">>,                 \* a record and more text
     <<"a">>, <<>>,                       \* text and a blank line
     <<"-", " ", "a", " ", "{", "}", "[">>,    \* no closing bracket
     <<"-", "a", " ", "{", "}", "[", "]">>}    \* no blank after the dash

LoadInit ==
    /\ \/ fs = [f \in FileNames |-> Absent]
       \/ \E lines \in UNION {[1..n -> AnyLines] : n \in 0..MaxLoadLines} :
              fs = [f \in FileNames |->
                       IF f = LOAD_TODO
                       THEN [exists |-> TRUE, mode |-> MODE_CREATED, lines |-> lines]
                       ELSE Absent]
    /\ tasks = <<>>
    /\ completed_tasks = <<>>
    /\ out = <<>>
    /\ view = <<>>
    /\ exitcode = 0
    /\ trace = <<>>
    /\ loaded = <<>>
    /\ moved = <<>>
    /\ argv = NoArgs
    /\ today = NotRead
    /\ running = NotRunning

\* load_tasks(), the first statement of main
Load ==
    /\ trace = <<>>
    /\ argv' = argv
    /\ today' = today
    /\ Exit(Loaded(load_tasks(Process(fs), LOAD_TODO, LOAD_DONE)))

LoadNext == Load

SpecLoad == LoadInit /\ [][LoadNext]_vars

\* A line is well-formed when, blanks at its ends aside, it begins with a
\* record: "- ", a description, " {", a date, "}[", a class, "]".
WellFormed(line) ==
    \E s \in {strip(line)} :
        /\ Len(s) >= 2 /\ s[1] = "-" /\ s[2] = " "
        /\ \E i, j, k \in 3..Len(s) :
               /\ i + 1 < j /\ j + 1 < k
               /\ s[i] = " " /\ s[i + 1] = "{"
               /\ s[j] = "}" /\ s[j + 1] = "["
               /\ s[k] = "]"

IsPrefix(a, b) == Len(a) <= Len(b) /\ SubSeq(b, 1, Len(a)) = a

(* C15.  Load keeps exactly the well-formed lines, in file order, and      *)
(* gives each pending task its 1-based line index as position: N           *)
(* well-formed lines yield the positions 1..N, a line that does not match  *)
(* yields no task, and a missing file yields no task and no error.         *)
C15_LoadKeepsWellFormed ==
    trace # <<>> =>
        \E lines \in {FileText(fs, LOAD_TODO)} :
            /\ exitcode = 0
            /\ {tasks[r].line_number : r \in 1..Len(tasks)} =
                   {n \in 1..Len(lines) : WellFormed(lines[n])}
            /\ \A r \in 1..Len(tasks) : \A q \in (r + 1)..Len(tasks) :
                   tasks[r].line_number < tasks[q].line_number
            /\ \A r \in 1..Len(tasks) :
                   IsPrefix(format_line(tasks[r]),
                            strip(lines[tasks[r].line_number]))
            /\ (\A n \in 1..Len(lines) : WellFormed(lines[n])) =>
                   [r \in 1..Len(tasks) |-> tasks[r].line_number] =
                       [r \in 1..Len(lines) |-> r]
            /\ ~Exists(fs, LOAD_TODO) => tasks = <<>>

\* A line of text and then a record were loaded: one task, of position 2.
C15_Witness ==
    /\ trace # <<>>
    /\ FileText(fs, LOAD_TODO) = << <<"a">>, RECORD_B >>
    /\ tasks = <<[line_number |-> 2, task |-> B, date |-> D_3_12,
                  task_class |-> X]>>

----------------------------------------------------------------------------
(* Invocations that run at the same time.  Each process is the `add`       *)
(* command in three steps: the load of line 98; the append and save_tasks  *)
(* up to open(filename, "w"), which truncates the file; the write of the   *)
(* buffered text at close, the second chmod and the prints.  Nothing in    *)
(* the script takes a lock, so the steps of the processes interleave       *)
(* freely.                                                                 *)

NumProcs == 2

Procs == 1..NumProcs

\* the text of a file: every line and its line break
RECURSIVE FileBytes(_)
FileBytes(lines) ==
    IF lines = <<>> THEN <<>>
    ELSE Head(lines) \o <<NL>> \o FileBytes(Tail(lines))

\* the text the write loop of save_tasks hands to the file object
RECURSIVE WrittenText(_)
WrittenText(list) ==
    IF list = <<>> THEN <<>>
    ELSE format_line(Head(list)) \o <<NL>> \o WrittenText(Tail(list))

TextLines(text) ==
    IF text = <<>> THEN <<>> ELSE SplitLines(SubSeq(text, 1, Len(text) - 1))

\* an open that keeps what the file holds, as mode "r+" does
OpenKeeping(p, filename) ==
    IF Raised(p) THEN p
    ELSE IF filename \notin FileNames
    THEN Raise(Call(p, "write", filename), "FileNotFoundError")
    ELSE [p EXCEPT !.trace = Append(@, <<"write", filename>>),
                   !.fs[filename] =
                       [exists |-> TRUE,
                        mode |-> IF @.exists THEN @.mode ELSE MODE_CREATED,
                        lines |-> @.lines]]

\* open(filename, "w"): the file is there and empty, the position is 0
OpenForWrite(p, filename) ==
    IF Raised(p) THEN p
    ELSE IF filename \notin FileNames
    THEN Raise(Call(p, "write", filename), "FileNotFoundError")
    ELSE [p EXCEPT !.trace = Append(@, <<"write", filename>>),
                   !.fs[filename] =
                       [exists |-> TRUE,
                        mode |-> IF @.exists THEN @.mode ELSE MODE_CREATED,
                        lines |-> <<>>]]

\* text written at position 0 over what the file holds by then
Overlay(new, old) == new \o SubSeq(old, Len(new) + 1, Len(old))

\* the end of the with block: the buffered text goes to the file
WriteClose(p, list, filename) ==
    IF Raised(p) THEN p
    ELSE [p EXCEPT !.fs[filename].lines =
                       TextLines(Overlay(WrittenText(list), FileBytes(@)))]

\* the tasks the processes add, one longer than the other
RaceAdds == {Args("add", A, None, None, <<>>, FALSE),
             Args("add", B, D_1_5, X, <<>>, FALSE)}

RaceInit ==
    /\ \/ fs = [f \in FileNames |-> Absent]
       \/ \E line \in FileLines :
              fs = [f \in FileNames |->
                       IF f = LOAD_TODO
                       THEN [exists |-> TRUE, mode |-> MODE_CREATED,
                             lines |-> <<line>>]
                       ELSE Absent]
    /\ tasks = <<>>
    /\ completed_tasks = <<>>
    /\ out = <<>>
    /\ view = <<>>
    /\ exitcode = 0
    /\ trace = <<>>
    /\ loaded = <<>>
    /\ moved = <<>>
    /\ argv = NoArgs
    /\ today = NotRead
    /\ \E args \in [Procs -> RaceAdds] :
           running = [procs |-> [i \in Procs |->
                                    [pc |-> "start", args |-> args[i],
                                     p |-> Process(fs)]],
                      events |-> <<>>]

\* the process i as it goes on, on the directory as it is now
Resume(i) == [running.procs[i].p EXCEPT !.fs = fs]

\* process i has taken a step and stands at pc
Step(i, pc, process) ==
    \E p \in {process} :
        /\ fs' = p.fs
        /\ running' = [procs |-> [running.procs EXCEPT ![i].pc = pc, ![i].p = p],
                       events |-> Append(running.events, <<i, pc>>)]
        /\ UNCHANGED <<tasks, completed_tasks, out, view, exitcode, trace,
                       loaded, moved, argv, today>>

\* load_tasks() and parse_args()
RaceLoad(i) ==
    /\ running.procs[i].pc = "start"
    /\ Step(i, "loaded",
            parse_args(Loaded(load_tasks(Process(fs), LOAD_TODO, LOAD_DONE)),
                       running.procs[i].args))

\* tasks.append(task_info); save_tasks() up to the open
RaceOpen(i) ==
    /\ running.procs[i].pc = "loaded"
    /\ Step(i, "opened",
            OpenForWrite(
                ensure_permissions(
                    [Resume(i) EXCEPT !.tasks =
                        Append(@, [task |-> running.procs[i].args.task,
                                   date |-> running.procs[i].args.date,
                                   task_class |-> running.procs[i].args.task_class])],
                    SAVE_TODO),
                SAVE_TODO))

\* the rest of save_tasks() and the prints
RaceWrite(i) ==
    /\ running.procs[i].pc = "opened"
    /\ Step(i, "done",
            PrintIf(
                PrintIf(
                    print(ensure_permissions(
                              WriteClose(Resume(i), Resume(i).tasks, SAVE_TODO),
                              SAVE_TODO),
                          "Adding task: ", running.procs[i].args.task),
                    "Due date: ", running.procs[i].args.date),
                "Class: ", running.procs[i].args.task_class))

RaceNext == \E i \in Procs : RaceLoad(i) \/ RaceOpen(i) \/ RaceWrite(i)

SpecRace == RaceInit /\ [][RaceNext]_vars

\* when process i took the step that brought it to pc
When(i, pc) ==
    CHOOSE n \in 1..Len(running.events) : running.events[n] = <<i, pc>>

AllDone == \A i \in Procs : running.procs[i].pc = "done"

\* every process loaded before any began to save
LoadedBeforeSaves ==
    \A i, j \in Procs : When(i, "loaded") < When(j, "opened")

\* the save of process j began after every other save had ended
SavedLast(j) ==
    \A i \in Procs \ {j} : When(i, "done") < When(j, "opened")

AddedLine(i) ==
    format_line(Task(running.procs[i].args.task, running.procs[i].args.date,
                     running.procs[i].args.task_class))

(* C16.  Lost update: when invocations of `add` run without coordination,  *)
(* all load before any saves, and the saves follow one another, the save   *)
(* that happens last overwrites the earlier ones: the pending file ends as *)
(* what the last process loaded followed by its task, and holds the task   *)
(* of no earlier process.  No lock keeps the processes from interleaving   *)
(* so.                                                                     *)
C16_LostUpdate ==
    (AllDone /\ LoadedBeforeSaves) =>
        \A j \in Procs :
            SavedLast(j) =>
                /\ PendingFile(fs) =
                       Append(FormatAll(running.procs[j].p.loaded), AddedLine(j))
                /\ \A i \in Procs \ {j} :
                       AddedLine(i) # AddedLine(j) =>
                           Count(PendingFile(fs), AddedLine(i)) =
                               Count(FormatAll(running.procs[j].p.loaded),
                                     AddedLine(i))
                /\ \A i \in Procs : ~Raised(running.procs[i].p)

\* Process 1 added the longer task and process 2 the shorter one; both
\* loaded first, then 1 saved, then 2 saved: the file holds the task of 2.
C16_Witness ==
    /\ AllDone /\ LoadedBeforeSaves
    /\ SavedLast(2)
    /\ running.procs[1].args.task = B
    /\ running.procs[2].args.task = A
    /\ PendingFile(fs) = <<format_line(Task(A, None, None))>>

====
